---- MODULE Spec2Model ----
(***************************************************************************)
(* expiredis (src/main.go): a cursor-driven SCAN loop over a Redis         *)
(* keyspace that deletes keys or rewrites their TTL, with a concurrent     *)
(* stats goroutine fed over unbuffered channels.                           *)
(*                                                                         *)
(* Two processes are modelled: the driver (func main, which also runs      *)
(* processKey inline) and the aggregator (func stats).  The Redis server   *)
(* is the environment: every reply (SCAN, TTL, DEL, EXPIRE) is drawn from  *)
(* a small set, failure included.                                          *)
(***************************************************************************)
EXTENDS Integers, Sequences, FiniteSets, TLC

(* ------------------------------ bounds -------------------------------- *)
\* largest cursor the server hands out (0 is its "iteration complete")
MaxCursor == 1
\* largest -count; the server returns at most count keys per SCAN
MaxCount == 2
\* successful SCANs in one run; the server fails every later one
MaxFetches == 3
\* largest TTL a key holds
MaxTTL == 3
\* largest -limit, -ttl-min, -subtract-ttl, -set-ttl
MaxLimit == 2
MaxTTLMin == 2
MaxSubtract == 2
MaxSet == 2
\* -count of the stats runs (batches of 4 and 6 keys)
StatsCount == 6

(* --------------------------- the environment -------------------------- *)
\* names of the keys the pattern matches
Keys == {"a", "b"}
\* what TTL replies: -2 (no such key), -1 (no expiry), or seconds left
TTLValues == (0 - 2)..MaxTTL
Cursors == 0..MaxCursor

RECURSIVE SeqsUpTo(_, _)
\* all sequences over S of length at most k
SeqsUpTo(S, k) ==
    IF k = 0 THEN {<<>>}
    ELSE LET shorter == SeqsUpTo(S, k - 1)
         IN shorter \cup {Append(s, x) : s \in {t \in shorter : Len(t) = k - 1}, x \in S}

VARIABLES
    \* flags (main.go:16-27), fixed for the run
    limit, count, ttlSubtract, ttlSet, deleteKeys, ttlMin, dryRun,
    \* the server: the keys that match -pattern, the TTLs its keys hold and
    \* the cursors SCAN returns
    server,
    \* var scan struct (main.go:74-79)
    cursor, batch, total, complete,
    \* the driver: where it is, and its place in `range scan.batch`
    pc, idx,
    \* func stats: its counters, where it is, the value it just received
    scan_count, keys_count, expired_count, spc, n,
    \* history: the last SCAN command and its reply
    lastScan,
    \* history: the batch size of every successful fetch, in order
    fetchLog,
    \* history: processKey invocations, and the last one
    processed, lastKey,
    \* the final stats line, <<>> until printed
    finalLine,
    \* history: per channel, the messages the driver has sent and their sum
    sends

cfgVars == <<limit, count, ttlSubtract, ttlSet, deleteKeys, ttlMin, dryRun, server>>
scanVars == <<cursor, batch, total, complete>>
statVars == <<scan_count, keys_count, expired_count>>
fetchHist == <<fetchLog>>
keyHist == <<processed, lastKey>>
vars == <<limit, count, ttlSubtract, ttlSet, deleteKeys, ttlMin, dryRun, server,
          cursor, batch, total, complete, pc, idx,
          scan_count, keys_count, expired_count, spc, n,
          lastScan, fetchLog,
          processed, lastKey, finalLine, sends>>

(* ------------------------- TTL Policy Evaluator ----------------------- *)
\* matchTTL, were the minimum inclusive
matchTTL_inclusive(ttl, min) ==
    IF min = 0 THEN TRUE
    ELSE IF min > 0 /\ ttl >= min THEN TRUE
    ELSE IF min = 0 - 1 /\ ttl = 0 - 1 THEN TRUE
    ELSE FALSE

\* main.go:195-209
matchTTL(ttl, min) ==
    IF min = 0 THEN TRUE
    ELSE IF min > 0 /\ ttl > min THEN TRUE
    ELSE IF min = 0 - 1 /\ ttl = 0 - 1 THEN TRUE
    ELSE FALSE

(* -------------------------- Key Action Executor ----------------------- *)
\* needTTL, were a negative -subtract-ttl not to count
needTTL_positiveOnly == ttlMin # 0 \/ ttlSubtract > 0

\* Whether processKey issues TTL
needTTL == ttlMin # 0 \/ ttlSubtract # 0

\* The value processKey holds in `ttl` when the server's TTL reply is `reply`
\* (var ttl int is 0 unless the fetch assigns it)
ttlOf(reply) == IF needTTL THEN reply ELSE 0

\* action, were -set-ttl tested before -delete and -subtract-ttl
action_setFirst ==
    IF ttlSet > 0 THEN "set"
    ELSE IF deleteKeys THEN "delete"
    ELSE IF ttlSubtract > 0 THEN "subtract"
    ELSE "none"

\* The branch processKey takes for a key that matched: the first of
\* deleteKeys, ttlSubtract > 0, ttlSet > 0
action ==
    IF deleteKeys THEN "delete"
    ELSE IF ttlSubtract > 0 THEN "subtract"
    ELSE IF ttlSet > 0 THEN "set"
    ELSE "none"

\* newTTL, were a negative result clamped to 0
newTTL_clamped(ttl) == IF ttl - ttlSubtract < 0 THEN 0 ELSE ttl - ttlSubtract

\* main.go:169
newTTL(ttl) == ttl - ttlSubtract

\* The command of the branch taken
command(key, ttl) ==
    CASE action = "delete" -> <<"DEL", key>>
      [] action = "subtract" -> <<"EXPIRE", key, newTTL(ttl)>>
      [] action = "set" -> <<"EXPIRE", key, ttlSet>>

\* mutation, were the error of DEL or EXPIRE not looked at
mutation_ignoresError(sent, cmd, mutOk) ==
    IF dryRun THEN [calls |-> sent, expired |-> TRUE]
    ELSE [calls |-> Append(sent, cmd), expired |-> TRUE]

\* mutation, were -dry-run tested only after the command is sent
mutation_sendsFirst(sent, cmd, mutOk) ==
    [calls |-> Append(sent, cmd), expired |-> dryRun \/ mutOk]

\* A branch: nothing is sent under -dry-run; else the command is sent
\* and the key counts as expired when the server accepts it
mutation(sent, cmd, mutOk) ==
    IF dryRun THEN [calls |-> sent, expired |-> TRUE]
    ELSE [calls |-> Append(sent, cmd), expired |-> mutOk]

\* processKey(c, key), with the server's replies as inputs: `reply` is what
\* TTL answers, ttlOk whether TTL succeeds, mutOk whether DEL/EXPIRE succeeds.
\* The result: the commands sent for the key, in order; the value of `ttl`;
\* whether matchTTL was called and what it returned; the return value.
processKey(key, reply, ttlOk, mutOk) ==
    LET ttl == ttlOf(reply)
        sent == IF needTTL THEN << <<"TTL", key>> >> ELSE <<>>
    IN  IF needTTL /\ ~ttlOk
            THEN [calls |-> sent, ttl |-> 0, ran |-> FALSE, matched |-> FALSE,
                  expired |-> FALSE]
        ELSE IF ~matchTTL(ttl, ttlMin)
            THEN [calls |-> sent, ttl |-> ttl, ran |-> TRUE, matched |-> FALSE,
                  expired |-> FALSE]
        ELSE IF action = "none"
            THEN [calls |-> sent, ttl |-> ttl, ran |-> TRUE, matched |-> TRUE,
                  expired |-> FALSE]
        ELSE LET m == mutation(sent, command(key, ttl), mutOk)
             IN  [calls |-> m.calls, ttl |-> ttl, ran |-> TRUE, matched |-> TRUE,
                  expired |-> m.expired]

(* ------------------------------- Init --------------------------------- *)
\* lastKey: the key, the TTL it holds on the server, and processKey's result
\* and, for each command sent, whether the server accepted it
NoKey == [key |-> "", stored |-> 0, calls |-> <<>>, oks |-> <<>>, ttl |-> 0,
          ran |-> FALSE, matched |-> FALSE, expired |-> FALSE]
\* lastScan: the cursor sent, the reply ("ok", "error": SCAN failed, "parse":
\* the reply did not parse) and the reply of the SCAN before it
NoScan == [arg |-> 0, reply |-> "none", prev |-> "none"]

\* sends: nothing yet
NoneSent == [scans |-> [msgs |-> 0, sum |-> 0], keys |-> [msgs |-> 0, sum |-> 0],
             expired |-> [msgs |-> 0, sum |-> 0]]
\* sends, after v went out on channel ch
Sent(ch, v) == [sends EXCEPT ![ch] = [msgs |-> @.msgs + 1, sum |-> @.sum + v]]

\* The state when the loop of main is entered (main.go:68-83)
Start ==
    /\ cursor = 0 /\ batch = <<>> /\ total = 0 /\ complete = FALSE
    /\ pc = "scan" /\ idx = 0
    /\ scan_count = 0 /\ keys_count = 0 /\ expired_count = 0
    /\ spc = "select" /\ n = 0
    /\ lastScan = NoScan
    /\ fetchLog = <<>>
    /\ processed = 0 /\ lastKey = NoKey
    /\ finalLine = <<>>
    /\ sends = NoneSent

\* Runs of the scan loop: every -limit and -count, keys deleted
Init ==
    /\ limit \in (0 - 1)..MaxLimit
    /\ count \in 1..MaxCount
    /\ ttlMin = 0 /\ ttlSubtract = 0 /\ ttlSet = 0
    /\ deleteKeys = TRUE /\ dryRun = FALSE
    /\ server = [keys |-> {"a"}, ttls |-> {0 - 1}, cursors |-> Cursors]
    /\ Start

\* Runs over one batch of at most two keys: every combination of the action
\* flags
InitKey ==
    /\ limit = 0 - 1
    /\ count = 2
    /\ ttlMin \in (0 - 2)..MaxTTLMin
    /\ ttlSubtract \in (0 - 1)..MaxSubtract
    /\ ttlSet \in 0..MaxSet
    /\ deleteKeys \in BOOLEAN
    /\ dryRun \in BOOLEAN
    /\ server = [keys |-> Keys, ttls |-> TTLValues, cursors |-> {0}]
    /\ Start

\* Runs with large batches and no limit
InitStats ==
    /\ limit = 0 - 1
    /\ count = StatsCount
    /\ ttlMin = 0 /\ ttlSubtract = 0 /\ ttlSet = 0
    /\ deleteKeys = TRUE /\ dryRun = TRUE
    /\ server = [keys |-> {"a"}, ttls |-> {0 - 1}, cursors |-> Cursors]
    /\ Start

\* Runs of the two goroutines: with and without a limit, batches of up to
\* two keys, keys deleted
InitLive ==
    /\ limit \in {0 - 1, 2}
    /\ count = 2
    /\ ttlMin = 0 /\ ttlSubtract = 0 /\ ttlSet = 0
    /\ deleteKeys = TRUE /\ dryRun = FALSE
    /\ server = [keys |-> {"a"}, ttls |-> {0 - 1}, cursors |-> Cursors]
    /\ Start

(* ------------------------------ the driver ---------------------------- *)
\* ScanFail, were a failed SCAN counted against the limit
ScanFail_countsKey ==
    /\ pc = "scan"
    /\ lastScan' = [arg |-> cursor, reply |-> "error", prev |-> lastScan.reply]
    /\ total' = total + 1
    /\ UNCHANGED <<cfgVars, cursor, batch, complete, pc, idx, statVars, spc, n,
                   fetchHist, keyHist, finalLine, sends>>

\* main.go:83-89: SCAN fails; sleep, retry
ScanFail ==
    /\ pc = "scan"
    /\ lastScan' = [arg |-> cursor, reply |-> "error",
                    prev |-> lastScan.reply]
    /\ UNCHANGED <<cfgVars, scanVars, pc, idx, statVars, spc, n, fetchHist, keyHist,
                   finalLine, sends>>

\* main.go:91-96: the reply does not parse.  redis.Scan assigns its
\* destinations in order and stops at the first that fails, so
\* scan.cursor may already hold the reply's cursor.
ParseFail ==
    /\ pc = "scan"
    /\ lastScan' = [arg |-> cursor, reply |-> "parse",
                    prev |-> lastScan.reply]
    /\ \/ UNCHANGED cursor
       \/ \E c \in server.cursors : cursor' = c
    /\ UNCHANGED <<cfgVars, batch, total, complete, pc, idx, statVars, spc, n,
                   fetchHist, keyHist, finalLine, sends>>

\* main.go:84-98: SCAN succeeds and parses
Fetch ==
    /\ pc = "scan" /\ Len(fetchLog) < MaxFetches
    /\ \E c \in server.cursors, b \in SeqsUpTo(server.keys, count) :
          /\ cursor' = c
          /\ batch' = b
          /\ fetchLog' = Append(fetchLog, Len(b))
    /\ lastScan' = [arg |-> cursor, reply |-> "ok",
                    prev |-> lastScan.reply]
    /\ idx' = 1
    /\ pc' = "keys"
    /\ UNCHANGED <<cfgVars, total, complete, statVars, spc, n, keyHist, finalLine, sends>>

\* limitReached, were a negative -limit not exempted
limitReached_noSignTest(t) == t >= limit

\* main.go:98-110: one iteration of `for _, key := range scan.batch`
limitReached(t) == limit >= 0 /\ t >= limit

\* The keys are told apart by processKey's result; the limit check comes first
Key ==
    /\ pc = "keys" /\ idx <= Len(batch)
    /\ total' = total + 1
    /\ IF limitReached(total + 1)
       THEN /\ complete' = TRUE
            /\ pc' = "sendScan"
            /\ UNCHANGED <<idx, keyHist>>
       ELSE /\ \E t \in server.ttls, ttlOk \in BOOLEAN, mutOk \in BOOLEAN :
                  LET r == processKey(batch[idx], t, ttlOk, mutOk)
                  IN  /\ lastKey' = [key |-> batch[idx], stored |-> t,
                                     calls |-> r.calls,
                                     oks |-> [k \in 1..Len(r.calls) |->
                                               IF r.calls[k][1] = "TTL" THEN ttlOk
                                               ELSE mutOk],
                                     ttl |-> r.ttl, ran |-> r.ran,
                                     matched |-> r.matched, expired |-> r.expired]
                      /\ pc' = IF r.expired THEN "sendExpired" ELSE "keys"
                      /\ idx' = IF r.expired THEN idx ELSE idx + 1
            /\ processed' = processed + 1
            /\ UNCHANGED complete
    /\ UNCHANGED <<cfgVars, cursor, batch, statVars, spc, n, lastScan, fetchHist,
                   finalLine, sends>>

\* KeysDone, were the loop left with keys of the batch still ahead
KeysDone_leavesEarly ==
    /\ pc = "keys"
    /\ pc' = "sendScan"
    /\ UNCHANGED <<cfgVars, scanVars, idx, statVars, spc, n, lastScan,
                   fetchHist, keyHist, finalLine, sends>>

\* main.go:98: the range is exhausted
KeysDone ==
    /\ pc = "keys" /\ idx > Len(batch)
    /\ pc' = "sendScan"
    /\ UNCHANGED <<cfgVars, scanVars, idx, statVars, spc, n, lastScan,
                   fetchHist, keyHist, finalLine, sends>>

\* main.go:108 with main.go:230: expired_stats <- 1 meets case n := <-expired
SendExpired ==
    /\ pc = "sendExpired" /\ spc = "select"
    /\ n' = 1 /\ spc' = "expired"
    /\ pc' = "keys" /\ idx' = idx + 1
    /\ sends' = Sent("expired", 1)
    /\ UNCHANGED <<cfgVars, scanVars, statVars, lastScan, fetchHist, keyHist,
                   finalLine>>

\* SendScan, were the terminal batch (cursor 0) not counted as a scan
SendScan_skipsTerminal ==
    /\ pc = "sendScan" /\ spc = "select"
    /\ n' = (IF cursor = 0 THEN 0 ELSE 1) /\ spc' = "scans"
    /\ pc' = "sendKeys"
    /\ sends' = Sent("scans", IF cursor = 0 THEN 0 ELSE 1)
    /\ UNCHANGED <<cfgVars, scanVars, idx, statVars, lastScan, fetchHist, keyHist,
                   finalLine>>

\* main.go:112 with main.go:224: scan_stats <- 1 meets case n := <-scans
SendScan ==
    /\ pc = "sendScan" /\ spc = "select"
    /\ n' = 1 /\ spc' = "scans"
    /\ pc' = "sendKeys"
    /\ sends' = Sent("scans", 1)
    /\ UNCHANGED <<cfgVars, scanVars, idx, statVars, lastScan, fetchHist, keyHist,
                   finalLine>>

\* continues, were the limit latch not consulted
continues_ignoresLatch == cursor # 0

\* main.go:115: the loop goes on unless the cursor is 0 or the limit was hit
continues == ~(cursor = 0 \/ complete)

\* SendKeys, were the keys the loop reached sent instead of len(scan.batch)
SendKeys_countsReached ==
    /\ pc = "sendKeys" /\ spc = "select"
    /\ n' = idx - 1 /\ spc' = "keys"
    /\ pc' = IF continues THEN "scan" ELSE "final"
    /\ sends' = Sent("keys", idx - 1)
    /\ UNCHANGED <<cfgVars, scanVars, idx, statVars, lastScan, fetchHist, keyHist,
                   finalLine>>

\* main.go:113-122 with main.go:227: keys_stats <- len(scan.batch) meets
\* case n := <-keys; the driver then decides whether to loop.  The sleep of
\* -delay (like that of a failed SCAN) changes no state.
SendKeys ==
    /\ pc = "sendKeys" /\ spc = "select"
    /\ n' = Len(batch) /\ spc' = "keys"
    /\ pc' = IF continues THEN "scan" ELSE "final"
    /\ sends' = Sent("keys", Len(batch))
    /\ UNCHANGED <<cfgVars, scanVars, idx, statVars, lastScan, fetchHist, keyHist,
                   finalLine>>

\* Final, were the final line printed without leaving the loop
Final_printsAgain ==
    /\ pc = "final" /\ spc = "select"
    /\ finalLine' = <<scan_count, keys_count, expired_count>>
    /\ UNCHANGED <<cfgVars, scanVars, pc, idx, statVars, spc, n, lastScan, fetchHist,
                   keyHist, sends>>

\* Final, were the counters read without meeting the aggregator at its select
Final_unsynchronised ==
    /\ pc = "final"
    /\ finalLine' = <<scan_count, keys_count, expired_count>>
    /\ pc' = "stopped"
    /\ UNCHANGED <<cfgVars, scanVars, idx, statVars, spc, n, lastScan, fetchHist,
                   keyHist, sends>>

\* main.go:126 with main.go:236 and 217-220: the driver receives printStats
\* from done and calls it
Final ==
    /\ pc = "final" /\ spc = "select"
    /\ finalLine' = <<scan_count, keys_count, expired_count>>
    /\ pc' = "stopped"
    /\ UNCHANGED <<cfgVars, scanVars, idx, statVars, spc, n, lastScan, fetchHist,
                   keyHist, sends>>

(* ---------------------------- the aggregator -------------------------- *)
\* main.go:225
AddScans ==
    /\ spc = "scans"
    /\ scan_count' = scan_count + n
    /\ spc' = "select"
    /\ UNCHANGED <<cfgVars, scanVars, pc, idx, keys_count, expired_count, n,
                   lastScan, fetchHist, keyHist, finalLine, sends>>

\* AddKeys, were the case to end the aggregator's loop
AddKeys_returns ==
    /\ spc = "keys"
    /\ keys_count' = keys_count + n
    /\ spc' = "returned"
    /\ UNCHANGED <<cfgVars, scanVars, pc, idx, scan_count, expired_count, n,
                   lastScan, fetchHist, keyHist, finalLine, sends>>

\* main.go:228
AddKeys ==
    /\ spc = "keys"
    /\ keys_count' = keys_count + n
    /\ spc' = "select"
    /\ UNCHANGED <<cfgVars, scanVars, pc, idx, scan_count, expired_count, n,
                   lastScan, fetchHist, keyHist, finalLine, sends>>

\* main.go:231
AddExpired ==
    /\ spc = "expired"
    /\ expired_count' = expired_count + n
    /\ spc' = "select"
    /\ UNCHANGED <<cfgVars, scanVars, pc, idx, scan_count, keys_count, n,
                   lastScan, fetchHist, keyHist, finalLine, sends>>

\* main.go:233-234: the one-second tick; printStats writes a log line and
\* changes nothing.  The process ends when main returns.
Timer ==
    /\ spc = "select" /\ pc # "stopped"
    /\ UNCHANGED vars

Next ==
    \/ ScanFail \/ ParseFail \/ Fetch
    \/ Key \/ KeysDone
    \/ SendExpired \/ SendScan \/ SendKeys \/ Final
    \/ AddScans \/ AddKeys \/ AddExpired \/ Timer

Spec == Init /\ [][Next]_vars
SpecKey == InitKey /\ [][Next]_vars
SpecStats == InitStats /\ [][Next]_vars

\* The Go scheduler runs every goroutine that can run, a send and a receive
\* that are both ready meet, and select chooses among its ready cases at
\* random, so no step of the program that stays possible is put off for
\* ever.  Nothing is assumed of the server: a SCAN may fail every time.
Fairness ==
    /\ WF_vars(Key) /\ WF_vars(KeysDone)
    /\ WF_vars(SendExpired) /\ WF_vars(SendScan) /\ WF_vars(SendKeys)
    /\ WF_vars(Final)
    /\ WF_vars(AddScans) /\ WF_vars(AddKeys) /\ WF_vars(AddExpired)

SpecLive == InitLive /\ [][Next]_vars /\ Fairness

(* ------------------------------ the claims ---------------------------- *)
RECURSIVE SumSeq(_)
SumSeq(q) == IF q = <<>> THEN 0 ELSE Head(q) + SumSeq(Tail(q))

\* indices of the DEL and EXPIRE commands among `calls`
Mutating(calls) == {k \in 1..Len(calls) : calls[k][1] \in {"DEL", "EXPIRE"}}
Expires(calls) == {k \in 1..Len(calls) : calls[k][1] = "EXPIRE"}
\* a SCAN command is issued in this step
ScanIssued == lastScan' # lastScan \/ fetchLog' # fetchLog
\* the driver is between batches or past the loop, and the aggregator idle
Quiet == pc \in {"scan", "final", "stopped"} /\ spc = "select"

\* C1 (as claimed): in a run with limit = L >= 1 whose first fetched batch
\* holds more than L keys, processKey has been invoked on exactly L keys
\* when the run stops.
C1_LimitCutoff ==
    (pc = "stopped" /\ limit >= 1 /\ Len(fetchLog) = 1 /\ fetchLog[1] > limit)
        => processed = limit

\* C2 (as claimed): after a run without limit whose fetches returned batches
\* of 4, 6 and 0 keys, the last with cursor 0, the final stats line reports
\* scans = 2 and keys = 10.
C2_StatsConsistency ==
    (finalLine # <<>> /\ limit < 0 /\ fetchLog = <<4, 6, 0>> /\ cursor = 0)
        => (finalLine[1] = 2 /\ finalLine[2] = 10)

\* C2 (amended): after such a run the final stats line reports scans = 3,
\* one per fetch, the empty terminal batch included, and keys = 10.
C2_StatsConsistencyAmended ==
    (finalLine # <<>> /\ limit < 0 /\ fetchLog = <<4, 6, 0>> /\ cursor = 0)
        => (finalLine[1] = 3 /\ finalLine[2] = 10)

C2_Witness ==
    finalLine # <<>> /\ limit < 0 /\ fetchLog = <<4, 6, 0>> /\ cursor = 0

\* C3: when a batch has been handled the driver goes back to SCAN if and only
\* if the cursor is non-zero and the limit latch is not set, and to the final
\* snapshot otherwise; after a fetch that returned cursor 0 no SCAN is issued
\* any more (so a first fetch returning 0 is the run's only fetch); once the
\* latch is set there is no further SCAN and no further processKey call.
C3_TerminationCheck ==
    [][ /\ (pc = "sendKeys" /\ pc' # "sendKeys")
            => /\ pc' = "scan" <=> (cursor # 0 /\ ~complete)
               /\ pc' = "final" <=> (cursor = 0 \/ complete)
        /\ (lastScan.reply = "ok" /\ cursor = 0)
            => (~ScanIssued /\ pc' # "scan" /\ Len(fetchLog') = Len(fetchLog))
        /\ complete
            => (~ScanIssued /\ pc' # "scan" /\ processed' = processed) ]_vars

\* the limit stops a run after its second batch although the cursor is not 0
C3_Witness ==
    pc = "stopped" /\ complete /\ cursor # 0 /\ Len(fetchLog) = 2

\* C4: a SCAN that fails leaves cursor, total, the latch and the three
\* counters as they were and sends no stats message; the SCAN issued after it
\* carries the same cursor; and whenever the driver is between batches and
\* the aggregator idle, every fetched batch has been counted exactly once:
\* scans is the number of fetches and keys the sum of their sizes.
C4_RetryResilience ==
    [][ /\ (ScanIssued /\ lastScan'.reply = "error")
            => /\ UNCHANGED <<cursor, total, complete, scan_count, keys_count,
                              expired_count, spc, n, batch, fetchLog>>
               /\ pc' = "scan"
        /\ (ScanIssued /\ lastScan.reply = "error")
            => lastScan'.arg = lastScan.arg
        /\ Quiet'
            => /\ scan_count' = Len(fetchLog')
               /\ keys_count' = SumSeq(fetchLog') ]_vars

\* a fetch has succeeded right after a failed SCAN, and its batch is counted
C4_Witness ==
    /\ lastScan.reply = "ok" /\ lastScan.prev = "error"
    /\ Quiet /\ Len(batch) > 0 /\ total > 0
    /\ scan_count = Len(fetchLog) /\ keys_count = SumSeq(fetchLog)


\* processKey has run on some key
Processed == lastKey.key # ""
\* the EXPIRE commands of the last processKey all carry `seconds`
ExpiresCarry(seconds) ==
    \A k \in Expires(lastKey.calls) : lastKey.calls[k][3] = seconds

\* C5: one processKey invocation sends at most one DEL or EXPIRE; with
\* delete, ttlSubtract > 0 and ttlSet > 0 all set, the only such command is
\* DEL; with delete unset and ttlSubtract > 0 and ttlSet > 0, an EXPIRE
\* carries ttl - ttlSubtract.
C5_ActionPriority ==
    Processed =>
        /\ Cardinality(Mutating(lastKey.calls)) <= 1
        /\ (deleteKeys /\ ttlSubtract > 0 /\ ttlSet > 0)
            => Expires(lastKey.calls) = {}
        /\ (~deleteKeys /\ ttlSubtract > 0 /\ ttlSet > 0)
            => ExpiresCarry(lastKey.ttl - ttlSubtract)

\* with all three set, a key was deleted
C5_Witness ==
    /\ deleteKeys /\ ttlSubtract > 0 /\ ttlSet > 0
    /\ Mutating(lastKey.calls) # {}
    /\ \A k \in Mutating(lastKey.calls) : lastKey.calls[k] = <<"DEL", lastKey.key>>

\* processKey runs in this step
KeyProcessed == processed' = processed + 1
\* the driver hands +1 to the aggregator's expired channel in this step
ExpiredSent == pc = "sendExpired" /\ pc' = "keys" /\ spc' = "expired" /\ n' = 1

\* C6 (as claimed): under -dry-run no DEL or EXPIRE is sent, and every key
\* matchTTL accepts is reported expired, whatever the action flags are; a
\* key reported expired is followed by +1 on the expired channel.
C6_DryRun ==
    [][ /\ (dryRun /\ KeyProcessed) =>
              /\ Mutating(lastKey'.calls) = {}
              /\ lastKey'.matched => lastKey'.expired
              /\ lastKey'.expired => pc' = "sendExpired"
        /\ (dryRun /\ pc = "sendExpired" /\ pc' # pc) => ExpiredSent ]_vars

\* C6 (amended): under -dry-run no DEL or EXPIRE is sent, and a key matchTTL
\* accepts is reported expired exactly when an action is configured (delete,
\* ttlSubtract > 0 or ttlSet > 0); with none configured it is reported not
\* expired.  A key reported expired is followed by +1 on the expired channel.
C6_DryRunAmended ==
    [][ /\ (dryRun /\ KeyProcessed) =>
              /\ Mutating(lastKey'.calls) = {}
              /\ lastKey'.matched =>
                    (lastKey'.expired <=> (deleteKeys \/ ttlSubtract > 0 \/ ttlSet > 0))
              /\ lastKey'.expired => pc' = "sendExpired"
        /\ (dryRun /\ pc = "sendExpired" /\ pc' # pc) => ExpiredSent ]_vars

\* under -dry-run a matching key is reported expired and nothing was sent
C6_Witness ==
    /\ dryRun /\ lastKey.matched /\ lastKey.expired
    /\ Mutating(lastKey.calls) = {}
    /\ expired_count = 1

\* what the TTL Policy Evaluator is to return for ttl and min
Eligible(ttl, min) ==
    \/ min = 0
    \/ min > 0 /\ ttl > min
    \/ min = 0 - 1 /\ ttl = 0 - 1

\* C7: matchTTL(ttl, ttlMin) is true exactly when ttlMin = 0, or ttlMin > 0
\* and ttl > ttlMin, or ttlMin = -1 and ttl = -1: for every value in range,
\* and for the TTL and threshold of every key processKey evaluated.
C7_MatchTTL ==
    /\ \A ttl \in TTLValues, min \in (0 - 2)..MaxTTLMin :
          matchTTL(ttl, min) <=> Eligible(ttl, min)
    /\ \A min \in 1..MaxTTLMin : ~matchTTL(min, min) /\ matchTTL(min + 1, min)
    /\ lastKey.ran => (lastKey.matched <=> Eligible(lastKey.ttl, ttlMin))

\* a key whose TTL equals a positive threshold was evaluated and rejected
C7_Witness ==
    lastKey.ran /\ ttlMin > 0 /\ lastKey.ttl = ttlMin /\ ~lastKey.matched

\* C8 (as claimed): with -set-ttl alone (ttl-min 0, no delete, no
\* subtract-ttl) no key that already has a TTL receives an EXPIRE.
C8_SetTTLOnlyWithoutTTL ==
    (ttlSet > 0 /\ ttlMin = 0 /\ ttlSubtract = 0 /\ ~deleteKeys /\ limit < 0)
        => (Expires(lastKey.calls) # {} => ~(lastKey.stored >= 0))

\* C9 (as claimed): with -subtract-ttl alone (ttl-min 0, no delete) no key
\* without a TTL (-1) and no key whose TTL is below ttlSubtract receives an
\* EXPIRE.
C9_SubtractOnlyAboveMinimum ==
    (ttlSubtract > 0 /\ ttlMin = 0 /\ ~deleteKeys /\ limit < 0)
        => (Expires(lastKey.calls) # {}
                => ~(lastKey.stored >= 0 - 1 /\ lastKey.stored < ttlSubtract))

\* C10: when the subtract branch runs (delete unset, ttlSubtract > 0, no
\* dry-run, key matched) processKey sends TTL and then one EXPIRE whose
\* seconds are the fetched TTL minus ttlSubtract, negative or not.
C10_NegativeSubtraction ==
    (Processed /\ ~deleteKeys /\ ttlSubtract > 0 /\ ~dryRun /\ lastKey.matched)
        => lastKey.calls = << <<"TTL", lastKey.key>>,
                              <<"EXPIRE", lastKey.key, lastKey.stored - ttlSubtract>> >>

\* a TTL smaller than ttlSubtract gave a negative EXPIRE
C10_Witness ==
    /\ ~deleteKeys /\ ttlSubtract > 0 /\ ~dryRun /\ lastKey.matched
    /\ lastKey.stored >= 0 /\ lastKey.stored < ttlSubtract
    /\ lastKey.calls[2] = <<"EXPIRE", lastKey.key, lastKey.stored - ttlSubtract>>
    /\ lastKey.calls[2][3] < 0


\* the server refused a command of the processKey call made in this step
KeyFailed == KeyProcessed /\ \E k \in DOMAIN lastKey'.oks : ~lastKey'.oks[k]

\* C11: when TTL, DEL or EXPIRE fails for a key, processKey returns false and
\* no +1 expired is sent for it; after a failed TTL no DEL or EXPIRE is sent
\* for the key; and the driver goes on to the next key of the batch with the
\* batch, the cursor and the limit latch as they were.
C11_PerKeyErrors ==
    [][ KeyFailed =>
          /\ ~lastKey'.expired
          /\ (lastKey'.calls[1][1] = "TTL" /\ ~lastKey'.oks[1])
                => Mutating(lastKey'.calls) = {}
          /\ pc' = "keys" /\ idx' = idx + 1
          /\ UNCHANGED <<batch, cursor, complete, sends>> ]_vars

\* the DEL of a batch's first key failed and its second key was deleted
C11_Witness ==
    /\ deleteKeys /\ ~dryRun /\ ttlMin = 0 /\ ttlSubtract = 0
    /\ Len(batch) = 2 /\ processed = 2 /\ sends.expired.msgs = 0
    /\ lastKey.expired /\ pc = "sendExpired"


\* C12: the final stats line is printed once: only by the driver past the
\* termination check (cursor 0 or limit latch), after the scan and keys
\* updates of every fetched batch have been sent; the driver stops with it,
\* never stops without it, and does nothing once stopped.
C12_FinalStatsOnce ==
    [][ /\ finalLine' # finalLine
            => /\ finalLine = <<>> /\ pc = "final" /\ pc' = "stopped"
               /\ cursor = 0 \/ complete
               /\ sends.scans.msgs = Len(fetchLog)
               /\ sends.keys.msgs = Len(fetchLog)
               /\ sends' = sends
        /\ pc' = "stopped" => finalLine' # <<>>
        /\ pc = "stopped" => UNCHANGED vars ]_vars

\* a run the limit ended has printed its final line
C12_Witness ==
    pc = "stopped" /\ complete /\ cursor # 0 /\ finalLine = <<1, 2, 0>>


\* keys of the fetched batches that the range loop has not reached yet
Remaining ==
    CASE pc = "keys" -> Len(batch) - (idx - 1)
      [] pc = "sendExpired" -> Len(batch) - idx
      [] OTHER -> 0

\* C13: with limit < 0 the limit latch is never set; processKey is called on
\* the keys of every fetched batch one by one in batch order, so that the
\* calls made are the keys fetched less those still ahead in the batch; the
\* run ends only after a fetch that returned cursor 0; and with delete set,
\* no dry-run and no command refused, the key gets exactly one DEL and
\* nothing else.
C13_UnboundedLimit ==
    [][ limit < 0 =>
          /\ ~complete'
          /\ processed' = SumSeq(fetchLog') - Remaining'
          /\ pc' \in {"final", "stopped"} => (cursor' = 0 /\ lastScan'.reply = "ok")
          /\ KeyProcessed =>
                /\ lastKey'.key = batch[idx]
                /\ idx = processed - (SumSeq(fetchLog) - Len(batch)) + 1
                /\ (deleteKeys /\ ~dryRun /\ lastKey'.matched
                        /\ \A k \in DOMAIN lastKey'.oks : lastKey'.oks[k])
                    => /\ Cardinality(Mutating(lastKey'.calls)) = 1
                       /\ \A k \in Mutating(lastKey'.calls) :
                              lastKey'.calls[k] = <<"DEL", batch[idx]>>
                       /\ lastKey'.expired ]_vars

\* a run without limit ended after three batches, every key deleted
C13_Witness ==
    /\ limit < 0 /\ pc = "stopped" /\ Len(fetchLog) = 3 /\ cursor = 0
    /\ processed = SumSeq(fetchLog) /\ processed >= 4
    /\ deleteKeys /\ finalLine[3] = processed


\* the scans (keys) message of the batch last fetched is still to be sent
ScansDue ==
    IF pc \in {"keys", "sendExpired", "sendScan"} THEN 1 ELSE 0
KeysDue ==
    IF pc \in {"keys", "sendExpired", "sendScan", "sendKeys"} THEN 1 ELSE 0

\* C14: each fetched batch gives rise to one message on the scans channel,
\* carrying 1, and one on the keys channel, carrying the length of the batch
\* as fetched; so in every state the messages sent are one per fetch but for
\* the batch in hand, and the final line's scans is the number of fetches and
\* its keys the sum of the fetched lengths, whatever part of them processKey
\* was called on.
C14_PerBatchAccounting ==
    /\ sends.scans.msgs = Len(fetchLog) - ScansDue
    /\ sends.scans.sum = sends.scans.msgs
    /\ sends.keys.msgs = Len(fetchLog) - KeysDue
    /\ sends.keys.sum = SumSeq(fetchLog) - (IF KeysDue = 1 THEN Len(batch) ELSE 0)
    /\ finalLine # <<>> =>
          /\ finalLine[1] = Len(fetchLog)
          /\ finalLine[2] = SumSeq(fetchLog)

\* an empty batch, then a batch of two with cursor 0 that the limit cut
\* after its first key
C14_Witness ==
    /\ pc = "stopped" /\ complete /\ cursor = 0
    /\ fetchLog = <<0, 2>> /\ processed = 1
    /\ finalLine[1] = 2 /\ finalLine[2] = 2
    /\ sends.keys.msgs = 2


\* processKey is still to be called on a key of the batch in hand
MoreKeys == pc = "keys" /\ idx <= Len(batch) /\ ~limitReached(total + 1)
\* every message of the batches fetched so far has been sent
BatchSent ==
    /\ pc # "sendExpired"
    /\ sends.scans.msgs = Len(fetchLog)
    /\ sends.keys.msgs = Len(fetchLog)

\* C15 (as claimed): whenever the driver sends a stats message, be it on the
\* expired, the scans or the keys channel, no processKey call of the batch in
\* hand is still to come; and when a SCAN is issued every message of the
\* batches before it has been sent.
C15_StatsOrdering ==
    [][ /\ sends' # sends => ~MoreKeys'
        /\ ScanIssued => BatchSent ]_vars

\* C15 (amended): the scans and keys messages of a batch are sent when the
\* key loop has ended (the range exhausted or the limit latch set); an
\* expired message is sent directly after the processKey call that returned
\* true, for that key, before the loop moves to the next key; and when a
\* SCAN is issued every message of the batches before it has been sent.
C15_StatsOrderingAmended ==
    [][ /\ (sends'.scans # sends.scans \/ sends'.keys # sends.keys)
            => /\ idx > Len(batch) \/ complete
               /\ ~MoreKeys'
        /\ (KeyProcessed /\ lastKey'.expired) => pc' = "sendExpired"
        /\ (KeyProcessed /\ ~lastKey'.expired) => sends' = sends /\ pc' = "keys"
        /\ (pc = "sendExpired" /\ pc' # pc)
            => /\ sends'.expired.msgs = sends.expired.msgs + 1
               /\ lastKey.expired /\ lastKey.key = batch[idx]
               /\ pc' = "keys" /\ idx' = idx + 1
        /\ sends'.expired # sends.expired => pc = "sendExpired"
        /\ ScanIssued => BatchSent ]_vars

\* the first key of a batch of two was deleted and its expired message sent;
\* then processKey was called on the second, whose DEL was refused
C15_Witness ==
    /\ pc = "sendScan" /\ Len(fetchLog) = 1 /\ Len(batch) = 2
    /\ processed = 2 /\ ~lastKey.expired
    /\ sends.expired.msgs = 1 /\ sends.scans.msgs = 0


\* C16 (as claimed): a SCAN whose reply does not parse leaves cursor, batch,
\* total and the three counters as they were, no processKey call follows
\* from it, and the SCAN issued after it carries the same cursor.
C16_ParseFailure ==
    [][ /\ (ScanIssued /\ lastScan'.reply = "parse")
            => /\ UNCHANGED <<cursor, batch, total, scan_count, keys_count,
                              expired_count>>
               /\ processed' = processed /\ pc' = "scan"
        /\ (ScanIssued /\ lastScan.reply = "parse")
            => lastScan'.arg = lastScan.arg ]_vars


\* the driver waits for the aggregator: in a send on one of the three
\* channels or in the receive from done
Blocked == pc \in {"sendExpired", "sendScan", "sendKeys", "final"}
\* the aggregator is still in the body of a case
Applying == spc \in {"scans", "keys", "expired"}

Fetches(calls) == {k \in 1..Len(calls) : calls[k][1] = "TTL"}

\* C18: processKey sends TTL for its key, once and before anything else, if
\* and only if ttlMin or ttlSubtract is not 0.  A negative ttlSubtract makes
\* it send TTL, and the value fetched is what matchTTL sees, but any EXPIRE
\* that follows is that of -set-ttl, not a subtraction.  With both 0 nothing
\* is fetched: matchTTL is called with ttl = 0 whatever the key's TTL on the
\* server is, and accepts.
C18_TTLFetchCoupling ==
    Processed =>
        /\ Fetches(lastKey.calls) # {} <=> (ttlMin # 0 \/ ttlSubtract # 0)
        /\ Fetches(lastKey.calls) \subseteq {1}
        /\ \A k \in Fetches(lastKey.calls) : lastKey.calls[k] = <<"TTL", lastKey.key>>
        /\ (ttlSubtract < 0 /\ lastKey.oks[1])
              => /\ lastKey.ran /\ lastKey.ttl = lastKey.stored
                 /\ lastKey.matched <=> matchTTL(lastKey.stored, ttlMin)
                 /\ Expires(lastKey.calls) # {} => (ttlSet > 0 /\ ExpiresCarry(ttlSet))
        /\ (ttlMin = 0 /\ ttlSubtract = 0)
              => /\ lastKey.ttl = 0
                 /\ lastKey.ran /\ lastKey.matched

\* ttlSubtract = -1 alone: TTL was fetched, and the EXPIRE sent is -set-ttl's
C18_Witness ==
    /\ ttlSubtract < 0 /\ ttlMin = 0 /\ ~deleteKeys /\ ttlSet > 0 /\ ~dryRun
    /\ Processed /\ lastKey.calls[1] = <<"TTL", lastKey.key>>
    /\ lastKey.ttl = 3 /\ lastKey.stored = 3
    /\ Len(lastKey.calls) = 2 /\ lastKey.calls[2] = <<"EXPIRE", lastKey.key, ttlSet>>


\* the run stops with its final line printed, unless from some point on the
\* driver is at SCAN for good (SCAN fails for ever); and once a fetch has
\* returned cursor 0 or the limit latch is set, it does stop
Terminates ==
    /\ <>[](pc = "scan") \/ <>(pc = "stopped" /\ finalLine # <<>>)
    /\ (lastScan.reply = "ok" /\ (cursor = 0 \/ complete))
          ~> (pc = "stopped" /\ finalLine # <<>>)
\* a SCAN that ends in one of `replies` is retried: the driver stays at SCAN
\* with the same cursor and nothing is printed
RetriesInPlace(replies) ==
    (ScanIssued /\ lastScan'.reply \in replies)
        => /\ pc' = "scan" /\ cursor' = cursor
           /\ finalLine' = <<>> /\ sends' = sends

\* C19 (as claimed): with fair scheduling the run stops with its final line
\* printed unless SCAN fails for ever; and a SCAN that fails, in transport or
\* in parsing, is retried at the same cursor, the driver neither giving up
\* nor reaching the final snapshot.
C19_Termination ==
    /\ Terminates
    /\ [][RetriesInPlace({"error", "parse"})]_vars


\* the increment the aggregator has received on `ch` and not yet added
InFlight(ch) == IF spc = ch THEN n ELSE 0

\* C20 (as claimed): in every state each counter is the sum of what the
\* driver has sent on its channel, every send that returned having been
\* applied; the final line shows these sums, and its expired is at most its
\* keys.
C20_NoPendingUpdate ==
    /\ scan_count = sends.scans.sum
    /\ keys_count = sends.keys.sum
    /\ expired_count = sends.expired.sum
    /\ finalLine # <<>> =>
          /\ finalLine = <<sends.scans.sum, sends.keys.sum, sends.expired.sum>>
          /\ finalLine[3] <= finalLine[2]

\* C20 (amended): a send returns when the aggregator has received the value,
\* which it adds to its counter afterwards; so each counter is the sum of
\* what was sent on its channel less the one increment, if any, received and
\* not yet added.  The final snapshot is handed over from the select only,
\* with nothing in flight: the final line shows the sums of all that was
\* sent, and its expired is at most its keys.
C20_NoPendingUpdateAmended ==
    /\ scan_count + InFlight("scans") = sends.scans.sum
    /\ keys_count + InFlight("keys") = sends.keys.sum
    /\ expired_count + InFlight("expired") = sends.expired.sum
    /\ finalLine # <<>> =>
          /\ ~Applying
          /\ finalLine = <<sends.scans.sum, sends.keys.sum, sends.expired.sum>>
          /\ finalLine[3] <= finalLine[2]

\* two batches, of one key and of two, two of the three keys deleted
C20_Witness ==
    /\ pc = "stopped" /\ fetchLog = <<1, 2>>
    /\ finalLine = <<2, 3, 2>>
    /\ sends.expired.msgs = 2 /\ expired_count = 2

====
